---- MODULE Spec2Model ----
(***************************************************************************)
(* A model of mongo-table (src/src/table.js): the provisioning sequence    *)
(* that turns a schema into a collection with its indexes, and the table   *)
(* operations bound to that collection.  The collection is a set of        *)
(* documents; a document is a function from field names to values.  The    *)
(* store calls (replaceOne, insertOne, deleteOne, findOne, find,           *)
(* findOneAndUpdate, deleteMany, createCollection, createIndex) are        *)
(* operators on that set; a batch is applied one write at a time.          *)
(***************************************************************************)
EXTENDS Integers, Sequences, FiniteSets, TLC

VARIABLES
    pc,       \* a provisioning step, "rejected", "ready" (the table is idle),
              \* "insertMany" or "upsertMany" (the store is applying the batch)
              \* or "settled" (an operation has settled or returned, its caller
              \* not yet resumed)
    schema,   \* the schema argument
    pos,      \* number of entries of the current schema list, or of writes of
              \* the current batch, already processed
    exists,   \* whether the collection exists in the database
    indexes,  \* the index specifications the store has created
    col,      \* the documents of the collection
    nextOid,  \* number of ObjectIds the driver has generated
    call,     \* the last table operation called, with its arguments and, for a
              \* write, the document its identifier named before the call
    issued,   \* the store calls issued by provisioning, or by the last operation
    result,   \* what the last operation (or provisioning) returned or threw
    inflight  \* number of provisioning calls issued and not yet settled

vars ==
    <<pc, schema, pos, exists, indexes, col, nextOid, call, issued, result,
      inflight>>

(***************************************************************************)
(* Bounds.                                                                 *)
(***************************************************************************)
MaxId == 2      \* identifiers given by callers are 1..MaxId
MaxTime == 2    \* values of the sort field are 1..MaxTime
MaxDocs == 2    \* documents in the collection
MaxOid == 1     \* ObjectIds generated by the driver
MaxList == 1    \* entries in each of indices, compound and text
MaxTtl == 2     \* entries in ttl
MaxItems == 2   \* items in an array field or argument
MaxBatch == 2   \* documents or identifiers given to a bulk operation
MaxFetch == 1   \* documents in a batch the cursor fetches from the store

(***************************************************************************)
(* Values.  Nil stands for JavaScript undefined and null: both are falsy   *)
(* for assert(id) and if (id), and the driver serialises undefined as      *)
(* null.  Identifiers given by callers are positive, generated ObjectIds   *)
(* are negative.                                                           *)
(***************************************************************************)
Nil == 0
Ids == 1 .. MaxId
Oid(n) == 0 - n
Times == 1 .. MaxTime
NoName == "undefined"
NoDoc == [f \in {} |-> Nil]

Has(d, f) == f \in DOMAIN d
Field(d, f) == IF Has(d, f) THEN d[f] ELSE Nil
\* { ...a, ...b }: the fields of a, overridden and extended by those of b
Spread(a, b) ==
    [f \in DOMAIN a \cup DOMAIN b |-> IF f \in DOMAIN b THEN b[f] ELSE a[f]]
Without(d, f) == [g \in DOMAIN d \ {f} |-> d[g]]
One(f, v) == [g \in {f} |-> v]

\* strings are sequences of letters
Names == {<<"a">>, <<"A", "b">>}

FieldValues(f) ==
    CASE f = "_id" -> Ids
      [] f = "id" -> Ids
      [] f = "created" -> Times
      [] f = "name" -> Names

WellTyped(d) == \A f \in DOMAIN d : d[f] \in FieldValues(f)

\* the documents over a set of fields, each field absent or with a value
Docs(fields) ==
    {d \in UNION {[fs -> UNION {FieldValues(f) : f \in fs}] : fs \in SUBSET fields} :
        WellTyped(d)}

\* the documents given to the write operations, and those the queries read
PlainDocs == Docs({"_id", "id"})
DatedDocs == Docs({"_id", "created"})

Ok(v) == [status |-> "ok", value |-> v]
Err(e) == [status |-> e, value |-> NoDoc]

(***************************************************************************)
(* The store.                                                              *)
(***************************************************************************)
Matching(c, id) == {d \in c : d["_id"] = id}

\* col.findOne({_id: id}): the document or null
FindOne(c, id) ==
    IF Matching(c, id) = {} THEN NoDoc ELSE CHOOSE d \in Matching(c, id) : TRUE

\* a replaceOne that merges props into the stored document, as $set would
ReplaceOneMerging(c, id, props) ==
    IF Has(props, "_id") /\ props["_id"] # id
    THEN [col |-> c, error |-> "ImmutableField"]
    ELSE [col |-> (c \ Matching(c, id))
                    \cup {Spread(Spread(FindOne(c, id), props), One("_id", id))},
          error |-> "none"]

\* col.replaceOne({_id: id}, props, {upsert: true}): the store rejects a
\* replacement whose _id differs from the one matched or upserted
ReplaceOne(c, id, props) ==
    IF Has(props, "_id") /\ props["_id"] # id
    THEN [col |-> c, error |-> "ImmutableField"]
    ELSE [col |-> (c \ Matching(c, id)) \cup {Spread(props, One("_id", id))},
          error |-> "none"]

\* an insertOne that replaces the stored document on a duplicate _id
InsertOneOrReplace(c, props, oid) ==
    LET doc == IF Field(props, "_id") = Nil
               THEN Spread(props, One("_id", oid)) ELSE props
    IN  [col |-> (c \ Matching(c, doc["_id"])) \cup {doc}, doc |-> doc,
         error |-> "none"]

\* an insertOne that does not look for the _id among the stored documents
InsertOneUnchecked(c, props, oid) ==
    LET doc == IF Field(props, "_id") = Nil
               THEN Spread(props, One("_id", oid)) ELSE props
    IN  [col |-> c \cup {doc}, doc |-> doc, error |-> "none"]

\* col.insertOne(props): the driver gives a document without _id a fresh
\* ObjectId (and writes it into props); the store rejects a duplicate _id
InsertOne(c, props, oid) ==
    LET doc == IF Field(props, "_id") = Nil
               THEN Spread(props, One("_id", oid)) ELSE props
    IN  IF Matching(c, doc["_id"]) # {}
        THEN [col |-> c, doc |-> doc, error |-> "DuplicateKey"]
        ELSE [col |-> c \cup {doc}, doc |-> doc, error |-> "none"]

\* a deleteOne whose filter names the field id
DeleteOneById(c, id) == {d \in c : Field(d, "id") # id}

\* col.deleteOne({_id: id})
DeleteOne(c, id) == c \ Matching(c, id)

\* col.findOneAndUpdate({_id: id}, {$set: props}, {upsert: true,
\* returnNewDocument: true}): the fields of props are set in the document
\* matched, or in a new document { _id: id }; _id cannot be set to another
\* value.  returnNewDocument is not an option of the driver, which returns
\* the document as it was before the update, null when it has upserted
FindOneAndUpdate(c, id, props) ==
    IF Has(props, "_id") /\ props["_id"] # id
    THEN [col |-> c, value |-> NoDoc, error |-> "ImmutableField"]
    ELSE [col |-> (c \ Matching(c, id))
                    \cup {Spread(Spread(FindOne(c, id), props), One("_id", id))},
          value |-> FindOne(c, id), error |-> "none"]

(***************************************************************************)
(* The table operations.  Each sets call, issued and result.               *)
(***************************************************************************)
Frame == UNCHANGED <<schema, pos, exists, indexes, inflight>>

Store(fn) == [fn |-> fn]

Return(c, args, calls, res) ==
    /\ pc' = "settled"
    /\ call' = c @@ args
    /\ issued' = calls
    /\ result' = res

Op(name) == [op |-> name]
Before(id) == [before |-> FindOne(col, id)]

get(id) ==
    /\ pc = "ready"
    /\ IF id = Nil
       THEN Return(Op("get"), [id |-> id], <<>>, Err("AssertionError"))
       ELSE Return(Op("get"), [id |-> id], <<Store("findOne")>>, Ok(FindOne(col, id)))
    /\ UNCHANGED <<col, nextOid>>
    /\ Frame

\* result ? true : false
Found(c, id) == FindOne(c, id) # NoDoc

has(id) ==
    /\ pc = "ready"
    /\ Return(Op("has"), [id |-> id], <<Store("findOne")>>,
              Ok(One("found", Found(col, id))))
    /\ UNCHANGED <<col, nextOid>>
    /\ Frame

\* a query that falls back on props._id
SetQueryFromPrimary(id, props) == IF id # Nil THEN id ELSE Field(props, "_id")

\* the body of set(id, props): query._id is id, or props.id when id is falsy
SetQuery(id, props) == IF id # Nil THEN id ELSE Field(props, "id")

SetBody(name, args, id, props) ==
    LET q == SetQuery(id, props)
        r == ReplaceOne(col, q, props)
    IN  /\ pc = "ready"
        /\ Cardinality(r.col) <= MaxDocs
        /\ col' = r.col
        /\ IF r.error = "none"
           THEN Return(Op(name), args @@ Before(q), <<Store("replaceOne")>>,
                       Ok(Spread(One("_id", q), props)))
           ELSE Return(Op(name), args @@ Before(q), <<Store("replaceOne")>>,
                       Err(r.error))
        /\ UNCHANGED nextOid
        /\ Frame

set(id, props) == SetBody("set", [id |-> id, props |-> props], id, props)

upsert(props) == SetBody("upsert", [props |-> props], Nil, props)

InsertBody(name, args, props) ==
    LET r == InsertOne(col, props, Oid(nextOid + 1))
    IN  /\ pc = "ready"
        /\ Cardinality(r.col) <= MaxDocs
        /\ Field(props, "_id") = Nil => nextOid < MaxOid
        /\ col' = r.col
        /\ nextOid' = IF Field(props, "_id") = Nil THEN nextOid + 1 ELSE nextOid
        /\ IF r.error = "none"
           THEN Return(Op(name), args @@ Before(r.doc["_id"]),
                       <<Store("insertOne")>>, Ok(r.doc))
           ELSE Return(Op(name), args @@ Before(r.doc["_id"]),
                       <<Store("insertOne")>>, Err(r.error))
        /\ Frame

insert(props) == InsertBody("insert", [props |-> props], props)

\* update(id, props): the store settles the call with the document before the
\* update, or rejects it; a server older than 5.0 rejects an empty $set
update(id, props) ==
    /\ pc = "ready"
    /\ IF id = Nil
       THEN /\ col' = col
            /\ Return(Op("update"), [id |-> id, props |-> props], <<>>,
                      Err("AssertionError"))
       ELSE LET r == FindOneAndUpdate(col, id, props)
                args == [id |-> id, props |-> props] @@ Before(id)
            IN  \/ /\ Cardinality(r.col) <= MaxDocs
                   /\ col' = r.col
                   /\ Return(Op("update"), args, <<Store("findOneAndUpdate")>>,
                             IF r.error = "none" THEN Ok(r.value)
                             ELSE Err(r.error))
                \/ /\ props = NoDoc
                   /\ col' = col
                   /\ Return(Op("update"), args, <<Store("findOneAndUpdate")>>,
                             Err("MongoError"))
    /\ UNCHANGED nextOid
    /\ Frame

\* props._id = props.id, an absent id leaving _id undefined
create(props) ==
    InsertBody("create", [props |-> props],
               IF Has(props, "id")
               THEN Spread(props, One("_id", props["id"]))
               ELSE Without(props, "_id"))

del(id) ==
    /\ pc = "ready"
    /\ col' = DeleteOne(col, id)
    /\ Return(Op("delete"), [id |-> id] @@ Before(id), <<Store("deleteOne")>>,
              Ok([f \in {"_id", "id"} |-> id]))
    /\ UNCHANGED nextOid
    /\ Frame

(***************************************************************************)
(* Queries.  A filter is a document read as one equality per field.        *)
(***************************************************************************)
\* the query { ...filter, [sortKey]: { $lte: max, $gte: min } }: the range
\* takes the place of whatever filter says of sortKey
BetweenQuery(filter, max, min, sortKey) ==
    [eq |-> Without(filter, sortKey), key |-> sortKey, lte |-> max, gte |-> min]

MatchesFilter(d, filter) ==
    \A f \in DOMAIN filter : Has(d, f) /\ d[f] = filter[f]

\* a document without the field matches neither $lte nor $gte
Matches(d, q) ==
    /\ MatchesFilter(d, q.eq)
    /\ Has(d, q.key)
    /\ d[q.key] <= q.lte
    /\ d[q.key] >= q.gte

Injective(s) == \A i, j \in DOMAIN s : s[i] = s[j] => i = j

\* sort: { [sortKey]: -1 }: the orders of S descending by key; the store
\* fixes no order among documents with equal keys
SortedDesc(S, key) ==
    {s \in [1 .. Cardinality(S) -> S] :
        /\ Injective(s)
        /\ \A i, j \in DOMAIN s : i < j => s[i][key] >= s[j][key]}

Page(s, skip, limit) ==
    SubSeq(s, skip + 1, IF skip + limit < Len(s) THEN skip + limit ELSE Len(s))

\* col.find(q, { sort, skip, limit }).toArray(): the arrays it may return
Find(c, q, skip, limit) ==
    {Page(s, skip, limit) : s \in SortedDesc({d \in c : Matches(d, q)}, q.key)}

\* the asserts without the one on limit
BetweenAssertsNoLimit(max, min, skip, limit) ==
    max > 0 /\ min >= 0 /\ skip >= 0

\* the asserts of getBySortedBetween (filter is an object, hence truthy)
BetweenAsserts(max, min, skip, limit) ==
    max > 0 /\ min >= 0 /\ skip >= 0 /\ limit >= 1

getBySortedBetween(filter, max, min, skip, limit, sortKey) ==
    LET args == [filter |-> filter, max |-> max, min |-> min, skip |-> skip,
                 limit |-> limit, sortKey |-> sortKey]
    IN  /\ pc = "ready"
        /\ IF BetweenAsserts(max, min, skip, limit)
           THEN \E rows \in Find(col, BetweenQuery(filter, max, min, sortKey),
                                 skip, limit) :
                    Return(Op("getBySortedBetween"), args, <<Store("find")>>,
                           Ok(rows))
           ELSE Return(Op("getBySortedBetween"), args, <<>>,
                       Err("AssertionError"))
        /\ UNCHANGED <<col, nextOid>>
        /\ Frame

(***************************************************************************)
(* The array operations.  Both call updateOne on table, the schema's       *)
(* table field: undefined, or the collection's name when the schema gives  *)
(* it as table.  Reading updateOne of undefined throws a TypeError, and    *)
(* calling the updateOne of a string, which is undefined, throws one too.  *)
(***************************************************************************)
Items == {"a", "b", "c"}
IsArray(items) == items \in Seq(Items)
Elems(items) == {items[i] : i \in DOMAIN items}

ArrayAsserts(id, key, items) == id # Nil /\ key # "" /\ IsArray(items)

\* table.updateOne(...) for the value table has in this schema
TableUpdateOne ==
    IF schema.table = NoName
    THEN "TypeError: Cannot read properties of undefined"
    ELSE "TypeError: table.updateOne is not a function"

ArrayBody(name, id, key, items) ==
    /\ pc = "ready"
    /\ IF ArrayAsserts(id, key, items)
       THEN Return(Op(name), [id |-> id, key |-> key, items |-> items], <<>>,
                   Err(TableUpdateOne))
       ELSE Return(Op(name), [id |-> id, key |-> key, items |-> items], <<>>,
                   Err("AssertionError"))
    /\ UNCHANGED <<col, nextOid>>
    /\ Frame

push(id, key, items) == ArrayBody("push", id, key, items)

pull(id, key, items) == ArrayBody("pull", id, key, items)

\* the caller, having awaited the operation, goes on to call the table again
Resume ==
    /\ pc = "settled"
    /\ pc' = "ready"
    /\ call' = Op("none")
    /\ issued' = <<>>
    /\ result' = Ok(NoDoc)
    /\ UNCHANGED <<col, nextOid>>
    /\ Frame

(***************************************************************************)
(* The bulk operations.  insertMany and bulkWrite are ordered: the store   *)
(* applies the writes of the batch one at a time, in the order given, and  *)
(* stops at the first that fails, leaving the earlier ones applied.  Each  *)
(* write is a step; pos counts the writes applied.                         *)
(***************************************************************************)
Pending == [status |-> "pending", value |-> NoDoc]

\* an insertMany that takes _id from id whenever the document has an id
WithPrimaryAlways(x) ==
    IF Field(x, "id") # Nil THEN Spread(x, One("_id", x["id"])) ELSE x

\* if (x.id && x._id == null) x._id = x.id
WithPrimary(x) ==
    IF Field(x, "id") # Nil /\ Field(x, "_id") = Nil
    THEN Spread(x, One("_id", x["id"]))
    ELSE x

\* the documents among the first i of a batch that carry no _id
Lacking(batch, i) == Cardinality({j \in 1 .. i : Field(batch[j], "_id") = Nil})

\* the driver gives each document without _id a fresh ObjectId before it
\* sends the batch
WithObjectIds(batch, n) ==
    [i \in 1 .. Len(batch) |->
        IF Field(batch[i], "_id") = Nil
        THEN Spread(batch[i], One("_id", Oid(n + Lacking(batch, i))))
        ELSE batch[i]]

BulkFrame == UNCHANGED <<schema, exists, indexes, inflight>>

\* insertMany(docs) up to the call of col.insertMany, which rejects an empty
\* batch
insertMany(docs) ==
    LET given == [i \in 1 .. Len(docs) |-> WithPrimary(docs[i])]
        batch == WithObjectIds(given, nextOid)
    IN  /\ pc = "ready"
        /\ nextOid + Lacking(given, Len(given)) <= MaxOid
        /\ nextOid' = nextOid + Lacking(given, Len(given))
        /\ call' = [op |-> "insertMany", docs |-> docs, batch |-> batch,
                    fresh |-> \A i \in 1 .. Len(batch) :
                                Matching(col, batch[i]["_id"]) = {}]
        /\ issued' = <<[fn |-> "insertMany", docs |-> batch]>>
        /\ IF docs = <<>>
           THEN pc' = "settled" /\ result' = Err("MongoError")
           ELSE pc' = "insertMany" /\ result' = Pending
        /\ UNCHANGED <<col, pos>>
        /\ BulkFrame

\* the store inserts the next document of the batch, or the call settles:
\* rejected at a duplicate _id, or returning docs once all are inserted
insertManyStep ==
    /\ pc = "insertMany"
    /\ IF pos < Len(call.batch)
       THEN LET r == InsertOne(col, call.batch[pos + 1], Nil)
            IN  /\ Cardinality(r.col) <= MaxDocs
                /\ col' = r.col
                /\ IF r.error = "none"
                   THEN pos' = pos + 1 /\ UNCHANGED <<pc, result>>
                   ELSE pc' = "settled" /\ pos' = 0 /\ result' = Err(r.error)
       ELSE /\ pc' = "settled"
            /\ pos' = 0
            /\ result' = Ok(call.batch)
            /\ col' = col
    /\ UNCHANGED <<call, issued, nextOid>>
    /\ BulkFrame

\* a bulkWrite filter that falls back on the replacement's _id
UpsertFilterFromPrimary(d) ==
    IF Field(d, "_id") # Nil THEN d["_id"] ELSE Field(d, "id")

\* filter: { _id: d.id }
UpsertFilter(d) == Field(d, "id")

\* upsertMany(docs) up to the call of col.bulkWrite, which rejects an empty
\* list of operations
upsertMany(docs) ==
    /\ pc = "ready"
    /\ call' = [op |-> "upsertMany", docs |-> docs]
    /\ issued' = <<[fn |-> "bulkWrite",
                    ops |-> [i \in 1 .. Len(docs) |->
                                [filter |-> UpsertFilter(docs[i]),
                                 replacement |-> docs[i]]]]>>
    /\ IF docs = <<>>
       THEN pc' = "settled" /\ result' = Err("MongoError")
       ELSE pc' = "upsertMany" /\ result' = Pending
    /\ UNCHANGED <<col, pos, nextOid>>
    /\ BulkFrame

\* the store applies the next replaceOne of the bulk write, or the call
\* settles: rejected at a replacement that changes _id, or returning docs
upsertManyStep ==
    /\ pc = "upsertMany"
    /\ IF pos < Len(call.docs)
       THEN LET op == issued[1].ops[pos + 1]
                r == ReplaceOne(col, op.filter, op.replacement)
            IN  /\ Cardinality(r.col) <= MaxDocs
                /\ col' = r.col
                /\ IF r.error = "none"
                   THEN pos' = pos + 1 /\ UNCHANGED <<pc, result>>
                   ELSE pc' = "settled" /\ pos' = 0 /\ result' = Err(r.error)
       ELSE /\ pc' = "settled"
            /\ pos' = 0
            /\ result' = Ok(call.docs)
            /\ col' = col
    /\ UNCHANGED <<call, issued, nextOid>>
    /\ BulkFrame

\* { _id: { $all: ids } }: on a field that holds no array, $all matches the
\* documents whose value equals every element of ids, and none when ids is
\* empty
MatchesAll(v, ids) == ids # <<>> /\ \A i \in 1 .. Len(ids) : ids[i] = v

\* col.deleteMany({ _id: { $all: ids } })
DeleteManyAll(c, ids) == {d \in c : ~MatchesAll(d["_id"], ids)}

deleteAll(ids) ==
    /\ pc = "ready"
    /\ col' = DeleteManyAll(col, ids)
    /\ Return(Op("deleteAll"), [ids |-> ids], <<Store("deleteMany")>>,
              Ok(One("deletedCount", Cardinality(col) - Cardinality(col'))))
    /\ UNCHANGED nextOid
    /\ Frame

(***************************************************************************)
(* The reads.  toArray returns the documents in the order the store gives  *)
(* them, which a find without sort does not fix.                           *)
(***************************************************************************)
ReadFrame == UNCHANGED <<col, nextOid>> /\ Frame

Orders(S) == {s \in [1 .. Cardinality(S) -> S] : Injective(s)}

\* col.find({ _id: { $in: ids } }).toArray()
getAll(ids) ==
    /\ pc = "ready"
    /\ \E rows \in Orders({d \in col : d["_id"] \in Elems(ids)}) :
          Return(Op("getAll"), [ids |-> ids], <<Store("find")>>, Ok(rows))
    /\ ReadFrame

\* col.find({ [index]: id }, options).toArray(), without options
getBy(index, id) ==
    /\ pc = "ready"
    /\ \E rows \in Orders({d \in col : MatchesFilter(d, One(index, id))}) :
          Return(Op("getBy"), [index |-> index, id |-> id], <<Store("find")>>,
                 Ok(rows))
    /\ ReadFrame

\* col.find({}).toArray()
list ==
    /\ pc = "ready"
    /\ \E rows \in Orders(col) :
          Return(Op("list"), NoDoc, <<Store("find")>>, Ok(rows))
    /\ ReadFrame

\* col.countDocuments(props)
count(props) ==
    /\ pc = "ready"
    /\ Return(Op("count"), [props |-> props], <<Store("countDocuments")>>,
              Ok(One("count", Cardinality({d \in col : MatchesFilter(d, props)}))))
    /\ ReadFrame

\* col.distinct(field)
distinct(field) ==
    /\ pc = "ready"
    /\ Return(Op("distinct"), [field |-> field], <<Store("distinct")>>,
              Ok(One("values", {d[field] : d \in {e \in col : Has(e, field)}})))
    /\ ReadFrame

Lower(letter) ==
    CASE letter = "A" -> "a"
      [] letter = "B" -> "b"
      [] OTHER -> letter

Fold(str) == [i \in 1 .. Len(str) |-> Lower(str[i])]

Contains(str, term) ==
    \E i \in 0 .. Len(str) - Len(term) : SubSeq(str, i + 1, i + Len(term)) = term

\* { [index]: { $regex: term, $options: "i" } }, for a term of letters and a
\* field of strings: the field contains term, letter case apart
RegexMatches(d, index, term) ==
    Has(d, index) /\ Contains(Fold(d[index]), Fold(term))

SearchBody(name, index, term, skip, limit) ==
    /\ pc = "ready"
    /\ \E s \in Orders({d \in col : RegexMatches(d, index, term)}) :
          Return(Op(name),
                 [index |-> index, term |-> term, skip |-> skip, limit |-> limit],
                 <<Store("find")>>, Ok(Page(s, skip, limit)))
    /\ ReadFrame

search(index, term, skip, limit) == SearchBody("search", index, term, skip, limit)

searchFuzzy(index, term, skip, limit) ==
    SearchBody("searchFuzzy", index, term, skip, limit)

\* col.deleteMany(query)
drop(query) ==
    /\ pc = "ready"
    /\ col' = {d \in col : ~MatchesFilter(d, query)}
    /\ Return(Op("drop"), [query |-> query], <<Store("deleteMany")>>,
              Ok(One("deletedCount", Cardinality(col) - Cardinality(col'))))
    /\ UNCHANGED nextOid
    /\ Frame

(***************************************************************************)
(* The stream.  readStream returns highland(col.find(query).stream()): the *)
(* highland stream is piped from the cursor, which reads from the store in *)
(* batches; the store closes the cursor with the batch that exhausts it.   *)
(* The stream is the value returned, and its caller consumes or destroys   *)
(* it before calling the table again.                                      *)
(***************************************************************************)
readStream(query) ==
    /\ pc = "ready"
    /\ Return(Op("readStream"), [query |-> query], <<>>,
              Ok([state |-> "open", cursor |-> "idle", source |-> <<>>,
                  buffer |-> <<>>, yielded |-> <<>>]))
    /\ ReadFrame

Streaming ==
    pc = "settled" /\ call.op = "readStream" /\ result.value.state = "open"

StreamFrame == UNCHANGED <<pc, call, nextOid>> /\ Frame

\* the cursor reads a batch: the first read issues the find, whose results
\* the store gives in some order, a later one a getMore
streamFetch ==
    /\ Streaming
    /\ result.value.buffer = <<>>
    /\ result.value.cursor # "closed"
    /\ \E src \in IF result.value.cursor = "idle"
                  THEN Orders({d \in col : MatchesFilter(d, call.query)})
                  ELSE {result.value.source} :
          LET n == IF Len(src) < MaxFetch THEN Len(src) ELSE MaxFetch
          IN  result' = Ok([result.value EXCEPT
                              !.buffer = SubSeq(src, 1, n),
                              !.source = SubSeq(src, n + 1, Len(src)),
                              !.cursor = IF n = Len(src) THEN "closed"
                                         ELSE "open"])
    /\ issued' = Append(issued, Store(IF result.value.cursor = "idle"
                                      THEN "find" ELSE "getMore"))
    /\ col' = col
    /\ StreamFrame

\* a stream whose consumer takes the documents out of the collection
streamPullRemoving ==
    /\ Streaming
    /\ result.value.buffer # <<>>
    /\ result' = Ok([result.value EXCEPT
                        !.yielded = Append(@, Head(result.value.buffer)),
                        !.buffer = Tail(@)])
    /\ col' = col \ {Head(result.value.buffer)}
    /\ UNCHANGED issued
    /\ StreamFrame

\* the consumer is given the next document
streamPull ==
    /\ Streaming
    /\ result.value.buffer # <<>>
    /\ result' = Ok([result.value EXCEPT
                        !.yielded = Append(@, Head(result.value.buffer)),
                        !.buffer = Tail(@)])
    /\ col' = col
    /\ UNCHANGED issued
    /\ StreamFrame

\* the cursor has ended after its last document: the stream ends
streamEnd ==
    /\ Streaming
    /\ result.value.buffer = <<>>
    /\ result.value.cursor = "closed"
    /\ result' = Ok([result.value EXCEPT !.state = "ended"])
    /\ col' = col
    /\ UNCHANGED issued
    /\ StreamFrame

\* the consumer destroys the stream: highland unpipes it from the cursor and
\* calls nothing else of the cursor, which stays as it was
streamDestroy ==
    /\ Streaming
    /\ result' = Ok([result.value EXCEPT !.state = "destroyed", !.buffer = <<>>])
    /\ col' = col
    /\ UNCHANGED issued
    /\ StreamFrame

(***************************************************************************)
(* Provisioning: the body of the module function up to the await of        *)
(* createTtlIndexes.  Each store call is one step; a createIndex call may  *)
(* be rejected by the store, createCollection is rejected when the         *)
(* collection exists and may be rejected for another reason.               *)
(***************************************************************************)
CollectionName == IF schema.name # NoName THEN schema.name ELSE schema.table

\* createIndex(collection, name, type): the key pattern { [name]: type }
SingleIndex(name, type) ==
    [key |-> <<name>>, type |-> type, expireAfterSeconds |-> Nil]

\* createCompoundIndex(collection, fields): every field ascending
CompoundIndex(fields) ==
    [key |-> fields, type |-> "1", expireAfterSeconds |-> Nil]

\* createTtlIndex(collection, name, options) past its two asserts
TtlIndex(name, options) ==
    [key |-> <<name>>, type |-> "1", expireAfterSeconds |-> options]

CreateIndexCall(ix) == [fn |-> "createIndex", index |-> ix]

ProvFrame == UNCHANGED <<schema, col, nextOid>>

\* createCollection without its catch: a rejection rejects the module function
createCollectionUncaught ==
    /\ pc = "createCollection"
    /\ IF inflight = 0
       THEN /\ issued' = Append(issued, [fn |-> "createCollection",
                                         name |-> CollectionName])
            /\ inflight' = 1
            /\ UNCHANGED <<pc, exists, call, result>>
       ELSE /\ inflight' = 0
            /\ \/ /\ ~exists
                  /\ exists' = TRUE
                  /\ call' = [call EXCEPT !.createCollection = "ok"]
                  /\ pc' = "createIndexes"
                  /\ UNCHANGED result
               \/ /\ exists
                  /\ exists' = exists
                  /\ call' = [call EXCEPT !.createCollection = "NamespaceExists"]
                  /\ pc' = "rejected"
                  /\ result' = Err("NamespaceExists")
               \/ /\ exists' = exists
                  /\ call' = [call EXCEPT !.createCollection = "MongoError"]
                  /\ pc' = "rejected"
                  /\ result' = Err("MongoError")
            /\ UNCHANGED issued
    /\ UNCHANGED <<pos, indexes>>
    /\ ProvFrame

\* await createCollection(name || table, options): the call is issued, and
\* when it settles every rejection is caught and logged, and provisioning
\* goes on
createCollection ==
    /\ pc = "createCollection"
    /\ IF inflight = 0
       THEN /\ issued' = Append(issued, [fn |-> "createCollection",
                                         name |-> CollectionName])
            /\ inflight' = 1
            /\ UNCHANGED <<pc, exists, call>>
       ELSE /\ inflight' = 0
            /\ \/ /\ ~exists
                  /\ exists' = TRUE
                  /\ call' = [call EXCEPT !.createCollection = "ok"]
               \/ /\ exists
                  /\ exists' = exists
                  /\ call' = [call EXCEPT !.createCollection = "NamespaceExists"]
               \/ /\ exists' = exists
                  /\ call' = [call EXCEPT !.createCollection = "MongoError"]
            /\ pc' = "createIndexes"
            /\ UNCHANGED issued
    /\ UNCHANGED <<pos, indexes, result>>
    /\ ProvFrame

\* Promise.map in the place of Promise.mapSeries: the call for the next entry
\* is issued while earlier ones have not settled
IndexStepAtOnce(here, entries, ix, next) ==
    /\ pc = here
    /\ \/ /\ pos + inflight < Len(entries)
          /\ issued' = Append(issued, CreateIndexCall(ix))
          /\ inflight' = inflight + 1
          /\ UNCHANGED <<pc, pos, indexes, exists, result>>
       \/ /\ inflight > 0
          /\ inflight' = inflight - 1
          /\ indexes' = indexes \cup {ix}
          /\ exists' = TRUE
          /\ pos' = pos + 1
          /\ UNCHANGED <<pc, result, issued>>
       \/ /\ pos = Len(entries)
          /\ pc' = next
          /\ pos' = 0
          /\ result' = IF next = "ready" THEN Ok(NoDoc) ELSE result
          /\ UNCHANGED <<issued, indexes, exists, inflight>>
    /\ UNCHANGED call
    /\ ProvFrame

\* one turn of Promise.mapSeries(list, ...): collection.createIndex(ix) is
\* called for the entry at pos + 1 once the call for the entry before it has
\* settled; a rejection rejects the module function; after the last entry the
\* await returns
IndexStep(here, entries, ix, next) ==
    /\ pc = here
    /\ IF inflight > 0
       THEN /\ inflight' = inflight - 1
            /\ \/ /\ indexes' = indexes \cup {ix}
                  /\ exists' = TRUE
                  /\ pos' = pos + 1
                  /\ UNCHANGED <<pc, result>>
               \/ /\ pc' = "rejected"
                  /\ result' = Err("MongoError")
                  /\ UNCHANGED <<indexes, exists, pos>>
            /\ UNCHANGED issued
       ELSE IF pos < Len(entries)
       THEN /\ issued' = Append(issued, CreateIndexCall(ix))
            /\ inflight' = inflight + 1
            /\ UNCHANGED <<pc, pos, indexes, exists, result>>
       ELSE /\ pc' = next
            /\ pos' = 0
            /\ result' = IF next = "ready" THEN Ok(NoDoc) ELSE result
            /\ UNCHANGED <<issued, indexes, exists, inflight>>
    /\ UNCHANGED call
    /\ ProvFrame

Entry(entries) == entries[pos + 1]

createIndexes ==
    IndexStep("createIndexes", schema.indices,
              SingleIndex(Entry(schema.indices), "1"), "createCompoundIndexes")

createCompoundIndexes ==
    IndexStep("createCompoundIndexes", schema.compound,
              CompoundIndex(Entry(schema.compound)), "createTextSearchIndexes")

createTextSearchIndexes ==
    IndexStep("createTextSearchIndexes", schema.text,
              SingleIndex(Entry(schema.text), "text"), "createTtlIndexes")

\* createTtlIndex asserts options.expireAfterSeconds before it calls the store
createTtlIndexes ==
    IF pc = "createTtlIndexes" /\ inflight = 0 /\ pos < Len(schema.ttl)
          /\ Entry(schema.ttl)[2] = Nil
    THEN /\ pc' = "rejected"
         /\ result' = Err("AssertionError")
         /\ UNCHANGED <<pos, exists, indexes, call, issued, inflight>>
         /\ ProvFrame
    ELSE IndexStep("createTtlIndexes", schema.ttl,
                   TtlIndex(Entry(schema.ttl)[1], Entry(schema.ttl)[2]), "ready")

(***************************************************************************)
(* Specifications.                                                         *)
(***************************************************************************)
BoundedSeq(S, n) == UNION {[1 .. k -> S] : k \in 0 .. n}

Schemas ==
    [name : {"users", NoName}, table : {"users", NoName},
     indices : BoundedSeq({"created", "id"}, MaxList),
     compound : BoundedSeq({<<"id", "created">>}, MaxList),
     text : BoundedSeq({"id"}, MaxList),
     ttl : BoundedSeq({"created"} \X {Nil, 1}, MaxTtl)]

Named(s) == s.name # NoName \/ s.table # NoName

\* the collections of at most MaxDocs documents with distinct identifiers
Collections(ids, payloads) ==
    UNION {{{Spread(f[i], One("_id", i)) : i \in S} : f \in [S -> payloads]} :
           S \in {T \in SUBSET ids : Cardinality(T) <= MaxDocs}}

\* the module function is called with a schema, on a database in which the
\* collection may exist already
InitProv ==
    /\ pc = "createCollection"
    /\ schema \in {s \in Schemas : Named(s)}
    /\ pos = 0
    /\ exists \in BOOLEAN
    /\ indexes = {}
    /\ col \in IF exists THEN Collections({1}, Docs({"id"})) ELSE {{}}
    /\ nextOid = 0
    /\ call = [op |-> "provision", createCollection |-> "pending"]
    /\ issued = <<>>
    /\ result = [status |-> "pending", value |-> NoDoc]
    /\ inflight = 0

NextProv ==
    \/ createCollection
    \/ createIndexes
    \/ createCompoundIndexes
    \/ createTextSearchIndexes
    \/ createTtlIndexes

SpecProv == InitProv /\ [][NextProv]_vars

\* the table as returned by the module function for a schema that names its
\* collection and declares no index, on an empty collection
InitTable ==
    /\ pc = "ready"
    /\ schema \in {s \in Schemas : /\ s.name # NoName
                                   /\ s.indices = <<>> /\ s.compound = <<>>
                                   /\ s.text = <<>> /\ s.ttl = <<>>}
    /\ pos = 0
    /\ exists = TRUE
    /\ indexes = {}
    /\ col = {}
    /\ nextOid = 0
    /\ call = Op("none")
    /\ issued = <<>>
    /\ result = Ok(NoDoc)
    /\ inflight = 0

IdArgs == Ids \cup {Nil}

\* the table is called when its caller is not awaiting an earlier call
Idle == pc = "ready"

NextCrud ==
    \/ Idle /\ \E id \in IdArgs : get(id)
    \/ Idle /\ \E id \in IdArgs : has(id)
    \/ Idle /\ \E id \in IdArgs, props \in PlainDocs : set(id, props)
    \/ Idle /\ \E props \in PlainDocs : upsert(props)
    \/ Idle /\ \E id \in IdArgs, props \in PlainDocs : update(id, props)
    \/ Idle /\ \E props \in PlainDocs : insert(props)
    \/ Idle /\ \E props \in PlainDocs : create(props)
    \/ Idle /\ \E id \in IdArgs : del(id)
    \/ Resume

SpecCrud == InitTable /\ [][NextCrud]_vars

\* the table on a collection that earlier calls of set have filled
InitQuery ==
    /\ pc = "ready"
    /\ schema \in {s \in Schemas : /\ s.name # NoName /\ s.table = NoName
                                   /\ s.indices = <<>> /\ s.compound = <<>>
                                   /\ s.text = <<>> /\ s.ttl = <<>>}
    /\ pos = 0
    /\ exists = TRUE
    /\ indexes = {}
    /\ col \in Collections(Ids, Docs({"created"}))
    /\ nextOid = 0
    /\ call = Op("none")
    /\ issued = <<>>
    /\ result = Ok(NoDoc)
    /\ inflight = 0

Filters == {d \in DatedDocs : Cardinality(DOMAIN d) <= 1}

NextQuery ==
    \/ Idle /\ \E filter \in Filters, max \in 0 .. MaxTime, min \in -1 .. MaxTime,
          skip \in -1 .. 1, limit \in 0 .. 2, sortKey \in {"created", "_id"} :
            getBySortedBetween(filter, max, min, skip, limit, sortKey)
    \/ Resume

SpecQuery == InitQuery /\ [][NextQuery]_vars

\* arrays of at most MaxItems distinct items
ItemLists == {l \in BoundedSeq(Items, MaxItems) : Injective(l)}
TagDocs == {NoDoc} \cup {One("tags", l) : l \in ItemLists}

\* the array operations, on documents written by set
NextArray ==
    \/ Idle /\ \E id \in Ids, props \in TagDocs : set(id, props)
    \/ Idle /\ \E id \in IdArgs, key \in {"tags", ""},
                  items \in ItemLists \cup {"a"} : push(id, key, items)
    \/ Idle /\ \E id \in IdArgs, key \in {"tags", ""},
                  items \in ItemLists \cup {"a"} : pull(id, key, items)
    \/ Resume

SpecArray == InitTable /\ [][NextArray]_vars

\* the table on a collection that earlier calls have filled with documents
\* stored under their id
InitBulk ==
    /\ pc = "ready"
    /\ schema \in {s \in Schemas : /\ s.name # NoName /\ s.table = NoName
                                   /\ s.indices = <<>> /\ s.compound = <<>>
                                   /\ s.text = <<>> /\ s.ttl = <<>>}
    /\ pos = 0
    /\ exists = TRUE
    /\ indexes = {}
    /\ col \in Collections(Ids, Docs({"id"}))
    /\ nextOid = 0
    /\ call = Op("none")
    /\ issued = <<>>
    /\ result = Ok(NoDoc)
    /\ inflight = 0

\* the batches given to the bulk operations: documents with an id, without
\* an _id or with one that is the id or the identifier after it; insertMany
\* is also given the document with neither
BatchDocs ==
    {d \in PlainDocs :
        /\ Has(d, "id")
        /\ Has(d, "_id") => d["_id"] \in {d["id"], (d["id"] % MaxId) + 1}}
Batches == BoundedSeq(BatchDocs, MaxBatch)
IdLists == BoundedSeq(Ids, MaxBatch)

\* the bulk operations, one caller at a time
NextBulk ==
    \/ Idle /\ \E docs \in Batches \cup {<<NoDoc>>} : insertMany(docs)
    \/ insertManyStep
    \/ Idle /\ \E docs \in Batches : upsertMany(docs)
    \/ upsertManyStep
    \/ Idle /\ \E ids \in IdLists : deleteAll(ids)
    \/ Resume

SpecBulk == InitBulk /\ [][NextBulk]_vars

\* the table on a collection of documents with or without a name
InitRead ==
    /\ pc = "ready"
    /\ schema \in {s \in Schemas : /\ s.name # NoName /\ s.table = NoName
                                   /\ s.indices = <<>> /\ s.compound = <<>>
                                   /\ s.text = <<>> /\ s.ttl = <<>>}
    /\ pos = 0
    /\ exists = TRUE
    /\ indexes = {}
    /\ col \in Collections(Ids, Docs({"name"}))
    /\ nextOid = 0
    /\ call = Op("none")
    /\ issued = <<>>
    /\ result = Ok(NoDoc)
    /\ inflight = 0

Terms == {<<"a">>, <<"B">>}
NameFilters == Docs({"name"})

\* the reads and the stream, and three of the writes
NextRead ==
    \/ Idle /\ \E id \in IdArgs : get(id)
    \/ Idle /\ \E id \in IdArgs : has(id)
    \/ Idle /\ \E ids \in IdLists : getAll(ids)
    \/ Idle /\ \E n \in Names : getBy("name", n)
    \/ Idle /\ list
    \/ Idle /\ \E props \in NameFilters : count(props)
    \/ Idle /\ \E field \in {"_id", "name"} : distinct(field)
    \/ Idle /\ \E term \in Terms, skip \in 0 .. 1, limit \in 1 .. 2 :
                  search("name", term, skip, limit)
    \/ Idle /\ \E term \in Terms, skip \in 0 .. 1, limit \in 1 .. 2 :
                  searchFuzzy("name", term, skip, limit)
    \/ Idle /\ \E max \in 0 .. MaxId, limit \in 0 .. 1 :
                  getBySortedBetween(NoDoc, max, 0, 0, limit, "_id")
    \/ Idle /\ \E query \in NameFilters : readStream(query)
    \/ streamFetch
    \/ streamPull
    \/ streamEnd
    \/ streamDestroy
    \/ Idle /\ \E id \in Ids, props \in Docs({"name"}) : set(id, props)
    \/ Idle /\ \E id \in Ids : del(id)
    \/ Idle /\ \E query \in NameFilters : drop(query)
    \/ Resume

SpecRead == InitRead /\ [][NextRead]_vars

\* the documents and batches of the concurrent callers: each carries an
\* identifier
KeyedDocs == {d \in PlainDocs : Has(d, "_id")}
IdDocs == {d \in BatchDocs : ~Has(d, "_id")}
IdBatches == BoundedSeq(IdDocs, MaxBatch)

\* a store write that an operation of another caller issues, between the
\* steps of the caller followed: the replaceOne of set, upsert or upsertMany,
\* the insertOne of insert or create or one insert of insertMany, the
\* findOneAndUpdate of update, the deleteOne of delete, the deleteMany of
\* deleteAll
Elsewhere ==
    /\ col' \in
          {ReplaceOne(col, SetQuery(id, props), props).col :
              id \in IdArgs, props \in IdDocs}
          \cup {InsertOne(col, WithPrimary(props), Nil).col : props \in IdDocs}
          \cup {FindOneAndUpdate(col, id, props).col :
                  id \in Ids, props \in IdDocs}
          \cup {DeleteOne(col, id) : id \in Ids}
          \cup {DeleteManyAll(col, ids) : ids \in IdLists}
    /\ Cardinality(col') <= MaxDocs
    /\ UNCHANGED <<pc, pos, call, issued, result, nextOid>>
    /\ BulkFrame

\* the write operations of one caller, with the writes of the others between
\* its steps
NextConc ==
    \/ Idle /\ \E id \in Ids, props \in Docs({"id"}) : set(id, props)
    \/ Idle /\ \E props \in IdDocs : upsert(props)
    \/ Idle /\ \E id \in Ids, props \in Docs({"id"}) : update(id, props)
    \/ Idle /\ \E props \in KeyedDocs : insert(props)
    \/ Idle /\ \E props \in IdDocs : create(props)
    \/ Idle /\ \E id \in Ids : del(id)
    \/ Idle /\ \E docs \in IdBatches : insertMany(docs)
    \/ insertManyStep
    \/ Idle /\ \E docs \in IdBatches : upsertMany(docs)
    \/ upsertManyStep
    \/ Idle /\ \E ids \in IdLists : deleteAll(ids)
    \/ Elsewhere
    \/ Resume

SpecConc == InitTable /\ [][NextConc]_vars

(***************************************************************************)
(* The write operations: set, delete, insert, upsert.                      *)
(***************************************************************************)
Settled(name) == pc = "settled" /\ call.op = name

\* d is a document with identifier i: it carries no _id, or i
Carries(d, i) == Field(d, "_id") = Nil \/ Field(d, "_id") = i

\* C1: when set(i, d) has settled, for an identifier i and a document d with
\* that identifier, it has succeeded and get(i) returns { _id: i, ...d }: the
\* fields of d and no field of the document stored before.
C1_SetThenGet ==
    (Settled("set") /\ call.id # Nil /\ Carries(call.props, call.id)) =>
        /\ result.status = "ok"
        /\ FindOne(col, call.id) = Spread(One("_id", call.id), call.props)
        /\ result.value = FindOne(col, call.id)

\* set has replaced a document that had a field the new one lacks
C1_Witness ==
    /\ Settled("set") /\ call.id # Nil /\ result.status = "ok"
    /\ Has(call.before, "id")
    /\ ~Has(call.props, "id")

\* C2: when delete(i) has settled, has(i) is false and the call has returned
\* { _id: i, id: i }, whether or not a document was stored under i; and the
\* call removes no document other than the one with identifier i.
C2_DeleteThenHas ==
    /\ [](Settled("delete") =>
            /\ ~Found(col, call.id)
            /\ result = Ok([f \in {"_id", "id"} |-> call.id]))
    /\ [][(pc' = "settled" /\ call'.op = "delete") =>
            /\ col' \subseteq col
            /\ \A d \in col : d["_id"] # call'.id => d \in col']_vars

\* delete has removed one document of two
C2_Witness ==
    /\ Settled("delete")
    /\ call.before # NoDoc
    /\ col # {}

\* delete of an identifier under which nothing was stored
C2_WitnessAbsent ==
    /\ Settled("delete")
    /\ call.before = NoDoc
    /\ col # {}

\* C3: insert(doc) of a document whose _id is stored already fails with a
\* duplicate-key error and leaves the collection as it was; insert(doc) of
\* a document whose _id is not stored adds that document and nothing else.
C3_InsertNoUpsert ==
    [][(pc' = "settled" /\ call'.op = "insert") =>
        IF Has(call'.props, "_id") /\ Matching(col, call'.props["_id"]) # {}
        THEN result'.status = "DuplicateKey" /\ col' = col
        ELSE /\ result'.status = "ok"
             /\ col' = col \cup {result'.value}
             /\ Without(result'.value, "_id") = Without(call'.props, "_id")
             /\ Carries(call'.props, result'.value["_id"])]_vars

\* insert has failed on a stored document that differs from the one given
C3_Witness ==
    /\ Settled("insert")
    /\ result.status = "DuplicateKey"
    /\ call.before # call.props

\* C4: when upsert(doc) has settled, for a document that carries an id (and
\* no _id other than it), it has succeeded and the collection holds exactly
\* one document with that identifier, with the content of doc: so after two
\* calls with the same id, with the content of the second.
C4_UpsertTwice ==
    (Settled("upsert") /\ Has(call.props, "id")
        /\ Carries(call.props, call.props["id"])) =>
        /\ result.status = "ok"
        /\ Matching(col, call.props["id"])
             = {Spread(call.props, One("_id", call.props["id"]))}

\* the second upsert of an id, with another content than the first
C4_Witness ==
    /\ Settled("upsert") /\ Has(call.props, "id")
    /\ result.status = "ok"
    /\ call.before # NoDoc
    /\ call.before # FindOne(col, call.props["id"])

(***************************************************************************)
(* getBySortedBetween.                                                     *)
(***************************************************************************)
\* the documents the call is to return: those matching filter with sortKey
\* in [min, max]
InRange(c, filter, max, min, sortKey) ==
    {d \in c : /\ MatchesFilter(d, filter)
               /\ Has(d, sortKey)
               /\ d[sortKey] >= min
               /\ d[sortKey] <= max}

\* C5: getBySortedBetween with valid arguments returns the documents that
\* match filter and have sortKey in [min, max], descending by sortKey, less
\* the first skip, at most limit of them, also when filter names sortKey.
C5_BetweenMatchesFilter ==
    (Settled("getBySortedBetween") /\ result.status = "ok") =>
        result.value \in
            {Page(s, call.skip, call.limit) :
                s \in SortedDesc(InRange(col, call.filter, call.max, call.min,
                                         call.sortKey), call.sortKey)}

\* C6: getBySortedBetween with max <= 0, min < 0, skip < 0 or limit < 1
\* fails with an assertion error and issues no call to the store.
C6_BetweenPreconditions ==
    (Settled("getBySortedBetween")
        /\ (call.max <= 0 \/ call.min < 0 \/ call.skip < 0 \/ call.limit < 1)) =>
        /\ result.status = "AssertionError"
        /\ issued = <<>>

\* the call with limit = 0 and every other argument valid, on a collection
\* that has a document in the range
C6_Witness ==
    /\ Settled("getBySortedBetween")
    /\ call.limit = 0 /\ call.max > 0 /\ call.min >= 0 /\ call.skip >= 0
    /\ InRange(col, call.filter, call.max, call.min, call.sortKey) # {}
    /\ result.status = "AssertionError"

(***************************************************************************)
(* push and pull.                                                          *)
(***************************************************************************)
\* C7: push(id, key, items) on a stored document with an array field key
\* succeeds and leaves in that field the elements it had and those of items,
\* each once (so [a, b] then [a, c] leave a, b, c).
C7_PushAddsToSet ==
    [][(/\ pc' = "settled" /\ call'.op = "push"
        /\ schema.name # NoName
        /\ ArrayAsserts(call'.id, call'.key, call'.items)
        /\ Has(FindOne(col, call'.id), call'.key)) =>
            /\ result'.status = "ok"
            /\ Has(FindOne(col', call'.id), call'.key)
            /\ Injective(FindOne(col', call'.id)[call'.key])
            /\ Elems(FindOne(col', call'.id)[call'.key])
                 = Elems(FindOne(col, call'.id)[call'.key])
                     \cup Elems(call'.items)]_vars

\* the array less the members of items
Pulled(array, items) ==
    LET Kept(x) == x \notin Elems(items) IN SelectSeq(array, Kept)

\* C8: pull(id, key, items) on a stored document with an array field key
\* succeeds and removes from that field the members of items and nothing
\* else, every other field and document staying as it was.
C8_PullRemovesMembers ==
    [][(/\ pc' = "settled" /\ call'.op = "pull"
        /\ ArrayAsserts(call'.id, call'.key, call'.items)
        /\ Has(FindOne(col, call'.id), call'.key)) =>
            /\ result'.status = "ok"
            /\ col' = (col \ Matching(col, call'.id))
                 \cup {Spread(FindOne(col, call'.id),
                              One(call'.key,
                                  Pulled(FindOne(col, call'.id)[call'.key],
                                         call'.items)))}]_vars

(***************************************************************************)
(* Provisioning.                                                           *)
(***************************************************************************)
\* C9: when provisioning is rejected by the assert on expireAfterSeconds, no
\* createCollection or createIndex call has been issued.
C9_TtlAssertBeforeCalls ==
    (pc = "rejected" /\ result.status = "AssertionError") => issued = <<>>

\* the createIndex calls of a schema, in the order of the provisioning steps
IndexCalls(s) ==
    [i \in 1 .. Len(s.indices) |->
        CreateIndexCall(SingleIndex(s.indices[i], "1"))]
    \o [i \in 1 .. Len(s.compound) |->
        CreateIndexCall(CompoundIndex(s.compound[i]))]
    \o [i \in 1 .. Len(s.text) |->
        CreateIndexCall(SingleIndex(s.text[i], "text"))]
    \o [i \in 1 .. Len(s.ttl) |->
        CreateIndexCall(TtlIndex(s.ttl[i][1], s.ttl[i][2]))]

\* C10: when the collection exists, the rejection of createCollection is
\* swallowed: provisioning goes on to the index steps, the table is returned
\* once every createIndex call of the schema has been issued after it, and
\* the documents of the collection are as they were.
C10_Reprovision ==
    /\ [][(pc = "createCollection" /\ inflight = 1 /\ exists) =>
            /\ pc' = "createIndexes"
            /\ call'.createCollection \in {"NamespaceExists", "MongoError"}
            /\ result' = result]_vars
    /\ [][col' = col]_vars
    /\ []((pc = "ready" /\ call.createCollection = "NamespaceExists") =>
            /\ result.status = "ok"
            /\ issued = <<[fn |-> "createCollection", name |-> CollectionName]>>
                          \o IndexCalls(schema))

\* the table returned for an existing collection with a document in it, after
\* at least one createIndex call
C10_Witness ==
    /\ pc = "ready"
    /\ call.createCollection = "NamespaceExists"
    /\ result.status = "ok"
    /\ col # {}
    /\ Len(issued) > 1

\* C11: when createCollection is rejected for a reason other than that the
\* collection exists, provisioning is rejected with that error: createCollection
\* stays the only call issued, and no table is returned.
C11_CreationFailureSurfaces ==
    call.createCollection = "MongoError" =>
        /\ pc = "rejected"
        /\ result.status = "MongoError"
        /\ Len(issued) = 1

IsPrefix(s, t) == Len(s) <= Len(t) /\ \A i \in 1 .. Len(s) : s[i] = t[i]

\* the calls of a provisioning that runs to its end
ProvisioningCalls(s) ==
    <<[fn |-> "createCollection", name |-> CollectionName]>> \o IndexCalls(s)

NoIdentifier ==
    \/ Settled("get") /\ call.id = Nil
    \/ Settled("has") /\ call.id = Nil
    \/ Settled("delete") /\ call.id = Nil
    \/ Settled("update") /\ call.id = Nil
    \/ Settled("set") /\ call.id = Nil /\ Field(call.props, "id") = Nil

\* C15: get, set, update, delete and has called without an identifier fail
\* with an assertion error and issue no call to the store.
C15_IdentifierRequired ==
    NoIdentifier => result.status = "AssertionError" /\ issued = <<>>

\* the document update(id, props) is to leave under id
Merged(c, id, props) == Spread(FindOne(c, id), props)

\* C16: update(id, props) on a stored document, with props naming a field and
\* no _id other than id, succeeds; it leaves under id the stored document
\* with the fields of props set to their new values, every other document as
\* it was, and it returns the document after the merge.
C16_UpdateMerges ==
    [][(/\ pc' = "settled" /\ call'.op = "update"
        /\ call'.id # Nil
        /\ Found(col, call'.id)
        /\ call'.props # NoDoc
        /\ Carries(call'.props, call'.id)) =>
            /\ result'.status = "ok"
            /\ col' = (col \ Matching(col, call'.id))
                        \cup {Merged(col, call'.id, call'.props)}
            /\ Merged(col, call'.id, call'.props)["_id"] = call'.id
            /\ result'.value = Merged(col, call'.id, call'.props)]_vars

(***************************************************************************)
(* The bulk operations.                                                    *)
(***************************************************************************)
\* C14: deleteAll(ids) removes every document whose identifier is in ids and
\* no other document, also when ids lists two or more distinct identifiers.
C14_DeleteAllRemovesListed ==
    [][(pc' = "settled" /\ call'.op = "deleteAll") =>
        col' = {d \in col : d["_id"] \notin Elems(call'.ids)}]_vars

\* two documents of the batch have the same _id, or one has an _id that was
\* stored when insertMany was called
Clash(batch, fresh) ==
    \/ ~fresh
    \/ \E i, j \in 1 .. Len(batch) : i # j /\ batch[i]["_id"] = batch[j]["_id"]

\* C17: insertMany(docs) hands the store one insertMany call with the whole
\* batch, in which a document with an id and no _id has its id as _id and an
\* explicit _id, equal to id or not, is as given; the call fails when an _id
\* of the batch is stored already or occurs twice in the batch, and no
\* document that was stored is replaced or removed.
C17_InsertManyNeverOverwrites ==
    /\ [](call.op = "insertMany" =>
            /\ issued = <<[fn |-> "insertMany", docs |-> call.batch]>>
            /\ Len(call.batch) = Len(call.docs)
            /\ \A i \in 1 .. Len(call.docs) :
                 /\ Without(call.batch[i], "_id") = Without(call.docs[i], "_id")
                 /\ Field(call.docs[i], "_id") # Nil =>
                        call.batch[i]["_id"] = call.docs[i]["_id"]
                 /\ (Field(call.docs[i], "_id") = Nil
                        /\ Field(call.docs[i], "id") # Nil) =>
                        call.batch[i]["_id"] = call.docs[i]["id"])
    /\ []((Settled("insertMany") /\ Clash(call.batch, call.fresh)) =>
            result.status = "DuplicateKey")
    /\ []((Settled("insertMany") /\ result.status = "ok") =>
            Elems(call.batch) \subseteq col)
    /\ [][call'.op = "insertMany" => col \subseteq col']_vars

\* insertMany has failed on a batch whose second document has an explicit
\* _id other than its id, an _id of the batch being stored already; its first
\* document is in the collection
C17_Witness ==
    /\ Settled("insertMany")
    /\ result.status = "DuplicateKey"
    /\ Len(call.docs) = 2
    /\ Has(call.docs[2], "_id") /\ Has(call.docs[2], "id")
    /\ call.docs[2]["_id"] # call.docs[2]["id"]
    /\ call.batch[1] \in col
    /\ ~call.fresh

\* the last document of docs that carries id
LastWith(docs, id) ==
    LET last == CHOOSE i \in 1 .. Len(docs) :
                    /\ Field(docs[i], "id") = id
                    /\ \A j \in i + 1 .. Len(docs) : Field(docs[j], "id") # id
    IN  docs[last]

Stored(c) ==
    CASE c.op \in {"set", "upsert"} ->
           Spread(c.props, One("_id", SetQuery(Field(c, "id"), c.props)))
      [] c.op = "insert" -> c.props
      [] c.op = "create" -> Spread(c.props, One("_id", c.props["id"]))
      [] c.op = "update" ->
           Spread(Spread(c.before, c.props), One("_id", c.id))

Matched == {d \in col : MatchesFilter(d, call.query)}

\* C13: a stream read to its end has yielded each document its query matches
\* once and no other; a stream destroyed after fewer documents yields no
\* further one and its cursor is closed; and no step of the stream changes
\* the collection.
C13_StreamYieldsEachOnce ==
    /\ []((Settled("readStream") /\ result.value.state = "ended") =>
            /\ Injective(result.value.yielded)
            /\ Elems(result.value.yielded) = Matched)
    /\ []((Settled("readStream") /\ result.value.state = "destroyed"
            /\ Len(result.value.yielded) < Cardinality(Matched)) =>
                result.value.cursor # "open")
    /\ [][(Settled("readStream") /\ result.value.state = "destroyed"
            /\ pc' = "settled") => result'.value.yielded = result.value.yielded]_vars
    /\ [][(pc' = "settled" /\ call'.op = "readStream") => col' = col]_vars

ReadOps ==
    {"get", "has", "getAll", "getBy", "list", "count", "distinct", "search",
     "searchFuzzy", "getBySortedBetween", "readStream"}

WriteOps ==
    {"set", "upsert", "upsertMany", "update", "insert", "create", "insertMany",
     "delete", "deleteAll", "drop", "push", "pull"}

\* C20: a step of get, has, getAll, getBy, list, count, distinct, search,
\* searchFuzzy, getBySortedBetween or of a stream, failed or not, leaves the
\* collection as it was; a step that changes the collection is one of set,
\* upsert, upsertMany, update, insert, create, insertMany, delete, deleteAll,
\* drop, push and pull.
C20_ReadsLeaveDocuments ==
    /\ [][(pc' = "settled" /\ call'.op \in ReadOps) => col' = col]_vars
    /\ [][col' # col => (pc = "ready" /\ call'.op \in WriteOps)]_vars

\* a stream has yielded one of the two documents of the collection
C20_Witness ==
    /\ Settled("readStream")
    /\ Len(result.value.yielded) = 1
    /\ Cardinality(col) = 2

====
